---- MODULE Spec2Model ----
(***************************************************************************)
(* A model of the two diagnostic programs validate_tomcat.py (Tool 1) and   *)
(* validate_truststore.py (Tool 2).  One run of main() is one behaviour:    *)
(* pc is the position in main(), the inputs (file system, arguments, what   *)
(* the decoder and the network answer) are drawn when main() first reads    *)
(* them, and an uncaught exception ends the run with exit status 1.         *)
(*                                                                         *)
(* The keystore decoder (jks), the X.509 decoder and the TLS library are    *)
(* outside the repository.  They are modelled by the signals the source     *)
(* handles: which exception class a call raises, and which attributes the   *)
(* returned object has.  Where the two programs presume different answers   *)
(* of the same call, both answers are admitted.                             *)
(***************************************************************************)
EXTENDS Integers, Sequences, FiniteSets, TLC

\* ---------------------------------------------------------------- bounds
MaxExpected == 2    \* names in --expected
MaxCertFiles == 2   \* paths in --certfiles

\* ------------------------------------------------------------- constants
NCand == 4          \* the four candidate paths of find_cacerts

Tools == {"tomcat", "truststore"}

\* What a candidate path is on disk.
Kinds == {"absent", "file", "dir"}
Layouts == [1..NCand -> Kinds]

\* Layouts of the full runs: nothing there; lib/security/cacerts only; a
\* directory named lib/security/jssecacerts before jre/lib/security/cacerts.
MainLayouts ==
    { [i \in 1..NCand |-> "absent"],
      [i \in 1..NCand |-> IF i = 2 THEN "file" ELSE "absent"],
      [i \in 1..NCand |-> IF i = 1 THEN "dir" ELSE IF i = 4 THEN "file" ELSE "absent"] }

Aliases == {"a", "b"}
\* Certificate bytes of a store entry: "bad" is not decodable as DER.
Ders == {"bad", "c1"}
ExpectedNames == {"a", "c"}

\* Entries of a store file in container order, aliases unique.
Contents ==
    { s \in UNION { [1..n -> Aliases \X Ders] : n \in 0..Cardinality(Aliases) } :
        \A i, j \in DOMAIN s : i # j => s[i][1] # s[j][1] }

NoEntries == << >>
Garbage == [fmt |-> "garbage", pwOk |-> FALSE, entries |-> NoEntries]
Directory == [fmt |-> "dir", pwOk |-> FALSE, entries |-> NoEntries]
NotRead == [fmt |-> "unread", pwOk |-> FALSE, entries |-> NoEntries]
Missing == [fmt |-> "missing", pwOk |-> FALSE, entries |-> NoEntries]
NotGiven == [fmt |-> "notgiven", pwOk |-> FALSE, entries |-> NoEntries]
\* A file with the FormatA magic number and a damaged body.
Corrupt == [fmt |-> "corrupt", pwOk |-> FALSE, entries |-> NoEntries]
\* A store file: its container format, whether --storepass opens it, its entries.
StoreFiles ==
    { Garbage, Corrupt } \cup
    [fmt : {"JKS", "P12"}, pwOk : BOOLEAN, entries : Contents]

NoStore == [shape |-> "none", entries |-> NoEntries]

\* An external certificate file: absent, not a certificate, or a certificate
\* in PEM or DER; certificate c2 is in no store.
CertFileKinds ==
    { [kind |-> "missing", cert |-> "none"], [kind |-> "garbage", cert |-> "none"],
      [kind |-> "pem", cert |-> "c1"], [kind |-> "der", cert |-> "c1"],
      [kind |-> "der", cert |-> "c2"] }

SeqsUpTo(S, n) == UNION { [1..k -> S] : k \in 0..n }

Range(s) == { s[i] : i \in DOMAIN s }

VARIABLES
    tool,       \* which program runs
    cand,       \* file system: what each candidate path is
    pc,         \* position in main()
    cacerts,    \* find_cacerts' result: a candidate's index, 0 for None
    keyFile,    \* Tool 1: the file at --keystore, once looked at
    trustFile,  \* the file at the resolved path, once opened
    attempts,   \* the formats the keystore loader has tried, in order
    sig1,       \* the signal of the loader's first attempt
    ks,         \* the loaded store object
    aliases,    \* list_aliases' result (Tool 1: ks.aliases)
    expected,   \* --expected, split at commas
    missing,    \* the names reported missing
    certfiles,  \* --certfiles, split at commas
    results,    \* the result printed for each path handled so far
    bundle,     \* the temporary PEM file: none, exists, deleted
    pem,        \* the certificates written to it
    probe,      \* the probe's state
    reason,     \* why the probe failed
    exitCode,   \* -1 while running, then the exit status
    err,        \* the uncaught exception that ended the run, or none
    out,        \* the findings printed
    ran         \* the stages entered

vars == << tool, cand, pc, cacerts, keyFile, trustFile, attempts, sig1, ks,
           aliases, expected, missing, certfiles, results, bundle, pem, probe,
           reason, exitCode, err, out, ran >>

\* ------------------------------------------------------------------ Init
InitRest ==
    /\ pc = "resolve"
    /\ cacerts = 0
    /\ keyFile = NotRead
    /\ trustFile = NotRead
    /\ attempts = << >>
    /\ sig1 = "none"
    /\ ks = NoStore
    /\ aliases = << >>
    /\ expected = << >>
    /\ missing = << >>
    /\ certfiles = << >>
    /\ results = << >>
    /\ bundle = "none"
    /\ pem = << >>
    /\ probe = "none"
    /\ reason = "none"
    /\ exitCode = -1
    /\ err = "none"
    /\ out = {}
    /\ ran = {}

Init ==
    /\ tool \in Tools
    /\ cand \in MainLayouts
    /\ InitRest

InitResolve ==
    /\ tool \in Tools
    /\ cand \in Layouts
    /\ InitRest

\* ------------------------------------------------------- the run's ends
\* sys.exit(code) after printing msg.
Exit(code, msg) ==
    /\ pc' = "done"
    /\ exitCode' = code
    /\ out' = out \cup msg
    /\ err' = err

\* An exception no handler catches: traceback, exit status 1.
Uncaught(e) ==
    /\ pc' = "done"
    /\ exitCode' = 1
    /\ err' = e
    /\ out' = out

\* ------------------------------------------------------- Path Resolver
\* os.path.isfile (Tool 2) and os.path.exists (Tool 1).
isfile(k) == k = "file"
exists(k) == k # "absent"

Test(t, k) == IF t = "truststore" THEN isfile(k) ELSE exists(k)

RECURSIVE FirstFrom(_, _, _)
FirstFrom(t, c, i) ==
    IF i > NCand THEN 0
    ELSE IF Test(t, c[i]) THEN i
    ELSE FirstFrom(t, c, i + 1)

find_cacerts(t, c) == FirstFrom(t, c, 1)

\* main: 1) / 2) locate the trust anchor file.
Resolve ==
    /\ pc = "resolve"
    /\ cacerts' = find_cacerts(tool, cand)
    /\ ran' = ran \cup {"resolve"}
    /\ IF cacerts' = 0
       THEN Exit(1, {"nocacerts"})
       ELSE /\ pc' = IF tool = "tomcat" THEN "keystore" ELSE "load"
            /\ UNCHANGED << exitCode, err, out >>
    /\ UNCHANGED << tool, cand, keyFile, trustFile, attempts, sig1, ks, aliases,
                    expected, missing, certfiles, results, bundle, pem, probe,
                    reason >>

\* ------------------------------------------------------ Keystore Loader
\* What jks.KeyStore.loads answers for a file: the store, or the exception
\* class raised.  open() of a directory raises before the decoder runs.
JksSignals(f) ==
    CASE f.fmt = "JKS" /\ f.pwOk  -> {"Ok"}
      [] f.fmt = "JKS" /\ ~f.pwOk -> {"DecryptionFailure"}
      [] f.fmt = "P12"            -> {"BadKeystoreFormat", "DecryptionFailure"}
      [] f.fmt = "garbage"        -> {"BadKeystoreFormat"}
      [] OTHER                    -> {"OtherError"}

\* What jks.PKCS12KeyStore.loads answers.
Pkcs12Signals(f) ==
    IF f.fmt = "P12" /\ f.pwOk THEN {"Ok"} ELSE {"Raise"}

\* The attributes a store object may have: a KeyStore has certs; what the
\* FormatB object has is for the library to say.
Shapes(fmt) == IF fmt = "JKS" THEN {"certs"} ELSE {"certs", "entries", "bare"}

\* The swapped handlers: what a loader that confuses the two signals does.
FirstAttemptSwapped(t, s) ==
    IF s = "Ok" THEN "return"
    ELSE IF t = "tomcat"
    THEN (IF s = "BadKeystoreFormat" THEN "retry" ELSE "raise")
    ELSE (IF s = "BadKeystoreFormat" THEN "wrongpw"
          ELSE IF s = "DecryptionFailure" THEN "retry"
          ELSE "raise")

\* The except clauses after the first attempt: inspect_keystore (Tool 1)
\* and load_keystore (Tool 2).
FirstAttempt(t, s) ==
    IF s = "Ok" THEN "return"
    ELSE IF t = "tomcat"
    THEN (IF s = "DecryptionFailure" THEN "retry" ELSE "raise")
    ELSE (IF s = "DecryptionFailure" THEN "wrongpw"
          ELSE IF s = "BadKeystoreFormat" THEN "retry"
          ELSE "raise")

\* The second attempt: Tool 1 lets its exception through, Tool 2 catches
\* every Exception and reports an invalid keystore.
SecondAttempt(t, s) ==
    IF s = "Ok" THEN "return"
    ELSE IF t = "tomcat" THEN "raise" ELSE "invalid"

\* The outcome of the loader on file f with the signals s1 and s2.
LoadOutcome(t, s1, s2) ==
    IF FirstAttempt(t, s1) = "retry" THEN SecondAttempt(t, s2)
    ELSE FirstAttempt(t, s1)

Tried(t, s1) ==
    IF FirstAttempt(t, s1) = "retry" THEN << "JKS", "P12" >> ELSE << "JKS" >>

\* The format that decoded the file.
LoadedAs(t, s1) == IF FirstAttempt(t, s1) = "retry" THEN "P12" ELSE "JKS"

AliasesOf(entries) == [i \in DOMAIN entries |-> entries[i][1]]
DersOf(entries) == [i \in DOMAIN entries |-> entries[i][2]]

\* list_aliases: the keys of certs, else the aliases of entries, else nothing.
list_aliases(store) ==
    IF store.shape = "certs" THEN AliasesOf(store.entries)
    ELSE IF store.shape = "entries" THEN AliasesOf(store.entries)
    ELSE << >>

\* Tool 2, main: 2) load_keystore.
Load ==
    /\ pc = "load"
    /\ \E f \in StoreFiles :
       \E s1 \in JksSignals(f) :
       \E s2 \in Pkcs12Signals(f) :
       \E sh \in Shapes(LoadedAs(tool, s1)) :
          /\ trustFile' = f
          /\ sig1' = s1
          /\ attempts' = Tried(tool, s1)
          /\ LET o == LoadOutcome(tool, s1, s2) IN
             CASE o = "return" ->
                    /\ ks' = [shape |-> sh, entries |-> f.entries]
                    /\ pc' = "list"
                    /\ UNCHANGED << exitCode, err, out >>
               [] o = "wrongpw" ->
                    /\ ks' = ks
                    /\ Exit(1, {"wrongpw"})
               [] o = "invalid" ->
                    /\ ks' = ks
                    /\ Exit(1, {"invalid"})
               [] OTHER ->
                    /\ ks' = ks
                    /\ Uncaught("StoreDecode")
    /\ ran' = ran \cup {"load"}
    /\ UNCHANGED << tool, cand, cacerts, keyFile, aliases, expected, missing,
                    certfiles, results, bundle, pem, probe, reason >>

\* Tool 2, main: 3) list the aliases.
List ==
    /\ pc = "list"
    /\ aliases' = list_aliases(ks)
    /\ ran' = ran \cup {"list"}
    /\ pc' = "expected"
    /\ UNCHANGED << tool, cand, cacerts, keyFile, trustFile, attempts, sig1, ks,
                    expected, missing, certfiles, results, bundle, pem, probe,
                    reason, exitCode, err, out >>

\* Tool 1, main: 3) the keystore, when --keystore is given and exists.
Keystore ==
    /\ pc = "keystore"
    /\ \E f \in StoreFiles \cup {NotGiven, Missing, Directory} :
       \E s1 \in JksSignals(f) :
       \E s2 \in Pkcs12Signals(f) :
          /\ keyFile' = f
          /\ IF f.fmt \in {"notgiven", "missing"}
             THEN /\ pc' = "probe"
                  /\ UNCHANGED << attempts, sig1, ks, aliases, exitCode, err, out >>
             ELSE /\ sig1' = s1
                  /\ attempts' = Tried(tool, s1)
                  /\ IF LoadOutcome(tool, s1, s2) = "return"
                     THEN /\ ks' = [shape |-> "certs", entries |-> f.entries]
                          /\ aliases' = AliasesOf(f.entries)
                          /\ IF aliases' = << >>
                             THEN Exit(1, {"noaliases"})
                             ELSE /\ pc' = "probe"
                                  /\ UNCHANGED << exitCode, err, out >>
                     ELSE /\ UNCHANGED << ks, aliases >>
                          /\ Uncaught("KeystoreDecode")
    /\ ran' = ran \cup {"keystore"}
    /\ UNCHANGED << tool, cand, cacerts, trustFile, expected, missing, certfiles,
                    results, bundle, pem, probe, reason >>

\* ------------------------------------------------ Reconciliation Reporter
RECURSIVE Contains(_, _, _)
\* e in aliases: equality with some element of the list.
Contains(al, x, j) ==
    IF j > Len(al) THEN FALSE
    ELSE IF al[j] = x THEN TRUE
    ELSE Contains(al, x, j + 1)

RECURSIVE MissingFromFirstOnly(_, _, _)
\* A check that looks at the first alias only.
MissingFromFirstOnly(e, al, i) ==
    IF i > Len(e) THEN << >>
    ELSE IF al # << >> /\ al[1] = e[i] THEN MissingFromFirstOnly(e, al, i + 1)
    ELSE << e[i] >> \o MissingFromFirstOnly(e, al, i + 1)

RECURSIVE MissingFrom(_, _, _)
\* [e for e in expected if e not in aliases], from position i.
MissingFrom(e, al, i) ==
    IF i > Len(e) THEN << >>
    ELSE IF Contains(al, e[i], 1) THEN MissingFrom(e, al, i + 1)
    ELSE << e[i] >> \o MissingFrom(e, al, i + 1)

\* Tool 2, main: 4) the expected aliases.
Expected ==
    /\ pc = "expected"
    /\ \E e \in SeqsUpTo(ExpectedNames, MaxExpected) :
          /\ expected' = e
          /\ IF e # << >>
             THEN /\ missing' = MissingFrom(e, aliases, 1)
                  /\ out' = out \cup (IF missing' # << >> THEN {"missing"}
                                                          ELSE {"allpresent"})
             ELSE UNCHANGED << missing, out >>
    /\ ran' = ran \cup {"expected"}
    /\ pc' = "certfiles"
    /\ UNCHANGED << tool, cand, cacerts, keyFile, trustFile, attempts, sig1, ks,
                    aliases, certfiles, results, bundle, pem, probe, reason,
                    exitCode, err >>

\* SHA-256 of the DER bytes as colon-separated hex: one string per certificate.
Fingerprint(der) == << "SHA256", der >>

\* x509.load_pem_x509_certificate and x509.load_der_x509_certificate on the
\* bytes of an external file: the certificate, or ValueError.
load_pem(f) == IF f.kind = "pem" THEN f.cert ELSE "ValueError"
load_der(f) == IF f.kind = "der" THEN f.cert ELSE "ValueError"

\* compute_fingerprint: PEM first, DER on ValueError; the second ValueError
\* is not caught.
compute_fingerprint(f) ==
    LET c == IF load_pem(f) # "ValueError" THEN load_pem(f) ELSE load_der(f)
    IN  IF c = "ValueError" THEN << "ValueError" >> ELSE Fingerprint(c)

\* ks.certs.get(alias).cert when ks has certs, else None.
EntryDer(store, alias) ==
    IF store.shape # "certs" THEN "None"
    ELSE LET hit == { i \in DOMAIN store.entries : store.entries[i][1] = alias }
         IN  IF hit = {} THEN "None" ELSE store.entries[CHOOSE i \in hit : TRUE][2]

RECURSIVE MatchFrom(_, _, _, _)
\* The loop over aliases: found at the first entry with the file's
\* fingerprint; an entry that is not decodable raises when it is reached.
MatchFrom(store, al, fp, j) ==
    IF j > Len(al) THEN "notfound"
    ELSE LET der == EntryDer(store, al[j]) IN
         IF der = "None" THEN MatchFrom(store, al, fp, j + 1)
         ELSE IF der = "bad" THEN "raise"
         ELSE IF Fingerprint(der) = fp THEN "found"
         ELSE MatchFrom(store, al, fp, j + 1)

\* Tool 2, main: 5) read --certfiles.
CertFiles ==
    /\ pc = "certfiles"
    /\ \E cf \in SeqsUpTo(CertFileKinds, MaxCertFiles) :
          /\ certfiles' = cf
          /\ pc' = IF cf = << >> THEN "probe" ELSE "certloop"
    /\ ran' = ran \cup {"certfiles"}
    /\ UNCHANGED << tool, cand, cacerts, keyFile, trustFile, attempts, sig1, ks,
                    aliases, expected, missing, results, bundle, pem, probe,
                    reason, exitCode, err, out >>

\* One pass of the loop over the paths.
CertLoop ==
    /\ pc = "certloop"
    /\ LET f == certfiles[Len(results) + 1]
           fp == compute_fingerprint(f)
           m == MatchFrom(ks, aliases, fp, 1)
       IN  IF f.kind = "missing"
           THEN /\ results' = Append(results, "missing")
                /\ pc' = IF Len(results') = Len(certfiles) THEN "probe" ELSE "certloop"
                /\ UNCHANGED << exitCode, err, out >>
           ELSE IF fp = << "ValueError" >>
           THEN /\ results' = results
                /\ Uncaught("CertFileDecode")
           ELSE IF m = "raise"
           THEN /\ results' = results
                /\ Uncaught("BadCert")
           ELSE /\ results' = Append(results, m)
                /\ pc' = IF Len(results') = Len(certfiles) THEN "probe" ELSE "certloop"
                /\ UNCHANGED << exitCode, err, out >>
    /\ UNCHANGED << tool, cand, cacerts, keyFile, trustFile, attempts, sig1, ks,
                    aliases, expected, missing, certfiles, bundle, pem, probe,
                    reason, ran >>

\* -------------------------------------------------------------- TLS Probe
\* The certificates the export loop reads: Tool 1 reads ks.certs of the
\* store it loads itself; Tool 2 reads ks.certs, and nothing when the
\* store object has no certs.
Exported(t, store) ==
    IF t = "tomcat" \/ store.shape = "certs" THEN DersOf(store.entries) ELSE << >>

\* The bundle after the export loop over ders: every certificate, up to
\* the first that is not decodable.
RECURSIVE Written(_, _)
Written(ders, i) ==
    IF i > Len(ders) \/ ders[i] = "bad" THEN << >>
    ELSE << ders[i] >> \o Written(ders, i + 1)

\* main: the last stage without --host: main returns.
NoProbe ==
    /\ pc = "probe"
    /\ Exit(0, {})
    /\ UNCHANGED << tool, cand, cacerts, keyFile, trustFile, attempts, sig1, ks,
                    aliases, expected, missing, certfiles, results, bundle, pem,
                    probe, reason, ran >>

\* Tool 2, main: 6) extract_truststore_pem(ks, password).
ExtractPem ==
    /\ pc = "probe"
    /\ tool = "truststore"
    /\ bundle' = "exists"
    /\ pem' = Written(Exported(tool, ks), 1)
    /\ ran' = ran \cup {"probe"}
    /\ IF Len(pem') < Len(Exported(tool, ks))
       THEN /\ Uncaught("BadCert")
            /\ probe' = probe
       ELSE /\ pc' = "context"
            /\ probe' = "Idle"
            /\ UNCHANGED << exitCode, err, out >>
    /\ UNCHANGED << tool, cand, cacerts, keyFile, trustFile, attempts, sig1, ks,
                    aliases, expected, missing, certfiles, results, reason >>

\* Tool 1, main: 4) extract_truststore(cacerts, password): the resolved path
\* is opened and decoded as FormatA, then exported.
ExtractTruststore ==
    /\ pc = "probe"
    /\ tool = "tomcat"
    /\ ran' = ran \cup {"probe"}
    /\ \E f \in IF cand[cacerts] = "dir" THEN {Directory} ELSE StoreFiles :
       \E s \in JksSignals(f) :
          /\ trustFile' = f
          /\ IF s # "Ok"
             THEN /\ Uncaught("StoreDecode")
                  /\ UNCHANGED << bundle, pem, probe >>
             ELSE /\ bundle' = "exists"
                  /\ pem' = Written(Exported(tool, [shape |-> "certs", entries |-> f.entries]), 1)
                  /\ IF Len(pem') < Len(f.entries)
                     THEN /\ Uncaught("BadCert")
                          /\ probe' = probe
                     ELSE /\ pc' = "context"
                          /\ probe' = "Idle"
                          /\ UNCHANGED << exitCode, err, out >>
    /\ UNCHANGED << tool, cand, cacerts, keyFile, attempts, sig1, ks, aliases,
                    expected, missing, certfiles, results, reason >>

\* Whether os.unlink(pem) runs when test_ssl_connection raises: Tool 2 calls
\* it in a finally clause, Tool 1 after the call.
UnlinkOnError(t) == t = "truststore"

\* ssl.create_default_context(cafile=pem), before the try of
\* test_ssl_connection: a bundle with no certificate raises ssl.SSLError.
Context ==
    /\ pc = "context"
    /\ IF pem = << >>
       THEN /\ Uncaught("SSLContext")
            /\ bundle' = IF UnlinkOnError(tool) THEN "deleted" ELSE bundle
            /\ probe' = probe
       ELSE /\ pc' = "connect"
            /\ probe' = "Connecting"
            /\ UNCHANGED << bundle, exitCode, err, out >>
    /\ UNCHANGED << tool, cand, cacerts, keyFile, trustFile, attempts, sig1, ks,
                    aliases, expected, missing, certfiles, results, pem, reason,
                    ran >>

ConnectResults == {"ok", "timeout", "refused"}
HandshakeResults == {"ok", "timeout", "certificate", "hostname"}

\* socket.create_connection((host, port), timeout=5).
Connect ==
    /\ pc = "connect"
    /\ \E r \in ConnectResults :
          IF r = "ok"
          THEN /\ pc' = "handshake"
               /\ probe' = "Handshaking"
               /\ UNCHANGED << reason, out >>
          ELSE /\ pc' = "cleanup"
               /\ probe' = "Failed"
               /\ reason' = r
               /\ out' = out \cup {"handshake_error"}
    /\ UNCHANGED << tool, cand, cacerts, keyFile, trustFile, attempts, sig1, ks,
                    aliases, expected, missing, certfiles, results, bundle, pem,
                    exitCode, err, ran >>

\* The exit status after a probe that ended in st.
ProbeExitStrict(st) == IF st = "Failed" THEN 1 ELSE 0

\* main returns after the probe whatever test_ssl_connection returned.
ProbeExit(st) == 0

\* ctx.wrap_socket(sock, server_hostname=host).
Handshake ==
    /\ pc = "handshake"
    /\ \E r \in HandshakeResults :
          IF r = "ok"
          THEN /\ probe' = "Success"
               /\ out' = out \cup {"handshake_ok"}
               /\ reason' = reason
          ELSE /\ probe' = "Failed"
               /\ reason' = r
               /\ out' = out \cup {"handshake_error"}
    /\ pc' = "cleanup"
    /\ UNCHANGED << tool, cand, cacerts, keyFile, trustFile, attempts, sig1, ks,
                    aliases, expected, missing, certfiles, results, bundle, pem,
                    exitCode, err, ran >>

\* test_ssl_connection has returned: os.unlink(pem), and main returns.
Cleanup ==
    /\ pc = "cleanup"
    /\ bundle' = "deleted"
    /\ Exit(ProbeExit(probe), {})
    /\ UNCHANGED << tool, cand, cacerts, keyFile, trustFile, attempts, sig1, ks,
                    aliases, expected, missing, certfiles, results, pem, probe,
                    reason, ran >>

\* ------------------------------------------------------------------ Next
Next ==
    \/ Resolve
    \/ Load
    \/ List
    \/ Keystore
    \/ Expected
    \/ CertFiles
    \/ CertLoop
    \/ NoProbe
    \/ ExtractPem
    \/ ExtractTruststore
    \/ Context
    \/ Connect
    \/ Handshake
    \/ Cleanup

Spec == Init /\ [][Next]_vars

\* The Path Resolver alone, over every layout of the four candidates.
SpecResolve == InitResolve /\ [][Resolve]_vars

\* ================================================================ claims

\* C1: whenever a run is started with --host, in both tools and for every
\* outcome of the probe, the temporary bundle file no longer exists once the
\* process has ended.
C1_BundleRemovedOnEveryPath ==
    (pc = "done" /\ "probe" \in ran) => bundle # "exists"

\* C2, as amended: FormatA is tried first and FormatB at most once after it.
\* Tool 1 retries as FormatB exactly on a decryption failure of the first
\* attempt; Tool 2 retries exactly on a bad-format signal and reports a wrong
\* password on a decryption failure; a first attempt that fails with neither
\* the retry signal nor success ends the run with exit status 1.
C2_FallbackPerTool ==
    attempts # << >> =>
        /\ attempts \in { << "JKS" >>, << "JKS", "P12" >> }
        /\ tool = "tomcat" => (Len(attempts) = 2 <=> sig1 = "DecryptionFailure")
        /\ tool = "truststore" => (Len(attempts) = 2 <=> sig1 = "BadKeystoreFormat")
        /\ (tool = "truststore" /\ sig1 = "DecryptionFailure") => "wrongpw" \in out
        /\ (sig1 # "Ok" /\ Len(attempts) = 1) => (pc = "done" /\ exitCode = 1)

\* C2 as stated: in both loaders FormatB is tried exactly on a decryption
\* failure of the FormatA attempt, and any other failure of the first
\* attempt ends the run with a non-zero exit status.
C2_RetryOnDecryptionFailure ==
    attempts # << >> =>
        /\ attempts[1] = "JKS"
        /\ Len(attempts) = 2 <=> sig1 = "DecryptionFailure"
        /\ (sig1 \notin {"Ok", "DecryptionFailure"}) => (pc = "done" /\ exitCode = 1)

\* Tool 2 has retried as FormatB after a bad-format signal and holds the store.
C2_Witness ==
    /\ tool = "truststore"
    /\ attempts = << "JKS", "P12" >>
    /\ sig1 = "BadKeystoreFormat"
    /\ pc = "list"
    /\ ks.entries # << >>

\* C3: a store file of either format opened with a wrong password is
\* reported as "wrong password", a file of no known format as "not a valid
\* keystore", never both; and a valid non-empty container is never listed
\* with zero entries.
C3_DistinctFailureCauses ==
    (tool = "truststore" /\ "load" \in ran) =>
        /\ (trustFile.fmt \in {"JKS", "P12"} /\ ~trustFile.pwOk) => "wrongpw" \in out
        /\ trustFile.fmt = "garbage" => "invalid" \in out
        /\ ~("wrongpw" \in out /\ "invalid" \in out)
        /\ ("list" \in ran /\ trustFile.entries # << >>) => aliases # << >>

\* C4: a path of --certfiles that is missing or not decodable is reported
\* for itself only: once the stage is over every path of the list has its
\* result.  (Runs ended by an undecodable store entry are left aside.)
C4_EveryPathGetsAResult ==
    ( /\ "certfiles" \in ran
      /\ pc \notin {"certfiles", "certloop"}
      /\ err # "BadCert" ) => Len(results) = Len(certfiles)

FirstFile(c) ==
    IF \E i \in 1..NCand : c[i] = "file"
    THEN CHOOSE i \in 1..NCand : c[i] = "file" /\ \A j \in 1..(i - 1) : c[j] # "file"
    ELSE 0

\* C5: in both tools find_cacerts returns the first candidate, in the fixed
\* order, that exists as a file, and "not found" exactly when none does; it
\* changes nothing else.
C5_FirstExistingFile ==
    "resolve" \in ran =>
        /\ cacerts = FirstFile(cand)
        /\ cacerts = 0 <=> \A i \in 1..NCand : cand[i] # "file"

InStore(fp) ==
    \E j \in DOMAIN ks.entries : Fingerprint(ks.entries[j][2]) = fp

\* C6: a decodable certificate file is reported found if and only if its
\* fingerprint is the fingerprint of an entry of the loaded store, whatever
\* the container format.
C6_FoundIffFingerprintInStore ==
    \A i \in DOMAIN results :
        results[i] # "missing" =>
            (results[i] = "found" <=> InStore(compute_fingerprint(certfiles[i])))

NotEnumerated(e) == \A j \in DOMAIN aliases : aliases[j] # e

ZeroUsable ==
    /\ keyFile.fmt \notin {"unread", "notgiven", "missing"}
    /\ aliases = << >>

\* The keystore was decoded and holds no entry.
ZeroAliases ==
    /\ keyFile.fmt \in {"JKS", "P12"}
    /\ ks # NoStore
    /\ aliases = << >>

\* The keystore at --keystore exists and the loader raised.
KeystoreUndecodable ==
    \/ keyFile.fmt \in {"garbage", "corrupt", "dir"}
    \/ keyFile.fmt \in {"JKS", "P12"} /\ ~keyFile.pwOk
    \/ keyFile.fmt = "P12" /\ sig1 = "BadKeystoreFormat"

\* With --host: the trust store is not FormatA opened by the password, or an
\* entry of it is not decodable, or it holds no certificate.
ProbeSetupFails ==
    /\ "probe" \in ran
    /\ \/ trustFile.fmt # "JKS"
       \/ ~trustFile.pwOk
       \/ "bad" \in Range(DersOf(trustFile.entries))
       \/ trustFile.entries = << >>

\* C8, as amended: Tool 1 exits with 1 if the trust anchor file is not
\* located, if the keystore at --keystore exists and is decoded with zero
\* aliases or cannot be decoded, or if with --host the trust store cannot be
\* decoded as FormatA, holds an undecodable certificate or holds none; it
\* exits with 0 in every other run, and a failed handshake leaves 0.
C8_ExitCodeTool1 ==
    (tool = "tomcat" /\ pc = "done") =>
        /\ exitCode \in {0, 1}
        /\ exitCode = 1 <=>
              \/ cacerts = 0
              \/ ZeroAliases
              \/ KeystoreUndecodable
              \/ ProbeSetupFails
        /\ probe = "Failed" => exitCode = 0

\* C8 as stated, with "zero usable entries" read as widely as it can be (a
\* keystore that cannot be decoded has none), over the runs that no
\* unremoved bundle or empty bundle ends: exit status 1 exactly when the
\* trust anchor is not located or the keystore has zero usable entries.
C8_ExitCodeAsStated ==
    ( /\ tool = "tomcat"
      /\ pc = "done"
      /\ err \notin {"BadCert", "SSLContext"}
      /\ trustFile.fmt # "dir" ) =>
        (exitCode = 1 <=> (cacerts = 0 \/ ZeroUsable))

\* Tool 1 has reported a failed handshake and ended with status 0.
C8_Witness ==
    /\ tool = "tomcat"
    /\ pc = "done"
    /\ probe = "Failed"
    /\ reason = "certificate"
    /\ keyFile.fmt = "JKS"
    /\ exitCode = 0

LoadFailed == "load" \in ran /\ ks = NoStore

\* C9: Tool 2 exits with 1 if the trust anchor file is not found or the
\* store cannot be decoded, and then no later stage has run; in every other
\* run it exits with 0.  (Runs ended by an undecodable store entry are left
\* aside.)
C9_ExitCodeTool2 ==
    (tool = "truststore" /\ pc = "done" /\ err # "BadCert") =>
        /\ exitCode = 1 <=> (cacerts = 0 \/ LoadFailed)
        /\ (cacerts = 0 \/ LoadFailed) =>
              ran \cap {"list", "expected", "certfiles", "probe"} = {}

\* C10: given a loaded store, an empty one included, and a host, the probe
\* ends in exactly one of Success and Failed, no failure ends the run as an
\* uncaught error, and the bundle is removed before the probe step returns.
\* (Runs ended by an undecodable store entry are left aside.)
C10_ProbeEndsReported ==
    (pc = "done" /\ bundle # "none" /\ err # "BadCert") =>
        /\ probe \in {"Success", "Failed"}
        /\ err = "none"
        /\ bundle = "deleted"

====
